---- MODULE Spec2Model ----
(***************************************************************************)
(* Model of audi_cli.py: the login retry loop of SafeAudiConnectAccount    *)
(* (login / try_login), the AudiCLI context manager (__aenter__ /          *)
(* __aexit__), the AudiCLI command methods and the command routing of      *)
(* main().                                                                 *)
(*                                                                         *)
(* The Audi service (self._audi_service) and the inherited account methods *)
(* (self.account.set_vehicle_lock, ...) are collaborators: each call to    *)
(* them is a nondeterministic choice over the results they can deliver.    *)
(***************************************************************************)
EXTENDS Integers, Sequences, FiniteSets

VARIABLES
    pc,               \* position of main(): "main", "login", "route", "exit",
                      \* "interrupted", "done", "aborted"
    session,          \* AudiCLI.session: "none", "open", "closed"
    spin,             \* AudiCLI.spin
    connect_retries,  \* account._connect_retries
    i,                \* loop index of login()
    loggedin,         \* account._loggedin
    logintime,        \* account._logintime (0 = never set)
    clock,            \* time.time()
    trace,            \* what login() did: outcome of every service login call, and "sleep"
    log,              \* logger.error records emitted by login / try_login
    loginRet,         \* value returned by login(): "none" (not returned), "True", "False"
    command,          \* args.command once routed
    arg,              \* integer argument of the command (args.target / args.duration / args.timer)
    dispatched,       \* calls made on self.account by the command methods
    result,           \* value delivered by the account call
    msg,              \* the outcome printed by the command method, or by main for a fault
    ret,              \* value returned by the command method
    errors,           \* messages of the faults the service raised during the current login()
    pastLogins,       \* earlier login() calls on this account: what each returned and left
    pastCmds          \* earlier command calls on this AudiCLI: input, call made and outcome

vars == <<pc, session, spin, connect_retries, i, loggedin, logintime, clock,
          trace, log, loginRet, command, arg, dispatched, result, msg, ret,
          errors, pastLogins, pastCmds>>

loginVars == <<i, loggedin, logintime, clock, trace, log, loginRet, errors>>
cmdVars == <<command, arg, dispatched, result, msg, ret>>
pastVars == <<pastLogins, pastCmds>>

(***************************************************************************)
(* Bounds                                                                  *)
(***************************************************************************)
MaxRetries == 3
Margin == 2
MaxLogins == 2
MaxCommands == 2

(***************************************************************************)
(* Program constants                                                       *)
(***************************************************************************)
MinTargetSoc == 20
MaxTargetSoc == 100
DefaultDuration == 30

(***************************************************************************)
(* Strings as sequences of characters, str.lower() and the `in` operator   *)
(***************************************************************************)
\* the characters a string can hold here are those up to U+00FF; among them
\* str.lower() changes exactly these, one character for one
UpperChars == <<"A","B","C","D","E","F","G","H","I","J","K","L","M",
                "N","O","P","Q","R","S","T","U","V","W","X","Y","Z",
                "À","Á","Â","Ã","Ä","Å","Æ","Ç","È","É","Ê","Ë","Ì",
                "Í","Î","Ï","Ð","Ñ","Ò","Ó","Ô","Õ","Ö","Ø","Ù","Ú",
                "Û","Ü","Ý","Þ">>
LowerChars == <<"a","b","c","d","e","f","g","h","i","j","k","l","m",
                "n","o","p","q","r","s","t","u","v","w","x","y","z",
                "à","á","â","ã","ä","å","æ","ç","è","é","ê","ë","ì",
                "í","î","ï","ð","ñ","ò","ó","ô","õ","ö","ø","ù","ú",
                "û","ü","ý","þ">>

NumCased == Len(UpperChars)

LowerChar(c) ==
    IF \E k \in 1..NumCased : UpperChars[k] = c
    THEN LowerChars[CHOOSE k \in 1..NumCased : UpperChars[k] = c]
    ELSE c

ToLower(s) == [k \in 1..Len(s) |-> LowerChar(s[k])]

Contains(needle, hay) ==
    \E k \in 0..(Len(hay) - Len(needle)) :
        SubSeq(hay, k + 1, k + Len(needle)) = needle

ThrottledMarker == <<"t","h","r","o","t","t","l","e","d">>
ThrottledErrorMarker ==
    <<"e","r","r","o","r","=","l","o","g","i","n",".","e","r","r","o","r",".">>
    \o ThrottledMarker

\* messages a fault of the service login call can carry
MsgLower == ThrottledMarker
MsgUpper == <<"T","H","R","O","T","T","L","E","D">>
MsgErrorCode == ThrottledErrorMarker
MsgErrorCodeUpper ==
    <<"E","R","R","O","R","=","L","O","G","I","N",".","E","R","R","O","R",".">>
    \o MsgUpper
MsgMixed ==
    <<"4","0","1",":"," ","T","h","r","o","t","t","l","e","d",";"," ","b","a","d">>
MsgGeneric == <<"i","n","v","a","l","i","d">>
MsgNearMiss == <<"t","h","r","o","t","t","l","e">>
MsgEmpty == <<>>
MsgAccented ==
    <<"É","c","h","e","c",":"," ","T","H","R","O","T","T","L","E","D">>

Messages == {MsgLower, MsgUpper, MsgErrorCode, MsgErrorCodeUpper, MsgMixed,
             MsgGeneric, MsgNearMiss, MsgEmpty, MsgAccented}

\* outcomes of `await self._audi_service.login(...)`: it returns, raises an
\* Exception carrying a message, or a BaseException is delivered at the await:
\* "cancel" is asyncio.CancelledError, "interrupt" is KeyboardInterrupt
ServiceLoginOutcomes ==
    {[kind |-> "ok", msg |-> <<>>], [kind |-> "cancel", msg |-> <<>>],
     [kind |-> "interrupt", msg |-> <<>>]}
    \cup {[kind |-> "exc", msg |-> m] : m \in Messages}

\* the outcomes `except Exception` does not catch
BaseOnly == {"cancel", "interrupt"}

BoolStr(b) == IF b THEN "True" ELSE "False"

(***************************************************************************)
(* SafeAudiConnectAccount.try_login                                        *)
(***************************************************************************)
\* line 78: 'throttled' in str(exception).lower()
IsThrottledTryMutant(m) == Contains(ThrottledMarker, m)
IsThrottledTry(m) == Contains(ThrottledMarker, ToLower(m))

TryLoginSwallowMutant(r, logError) ==
    IF r.kind = "ok" THEN
        [kind |-> "return", value |-> TRUE, msg |-> <<>>, logs |-> <<>>]
    ELSE IF r.kind = "exc" /\ IsThrottledTry(r.msg) THEN
        [kind |-> "raise", value |-> FALSE, msg |-> r.msg, logs |-> <<>>]
    ELSE
        [kind |-> "return", value |-> FALSE, msg |-> <<>>,
         logs |-> IF logError THEN <<"check_terms">> ELSE <<>>]
TryLoginLogFirstMutant(r, logError) ==
    IF r.kind = "ok" THEN
        [kind |-> "return", value |-> TRUE, msg |-> <<>>, logs |-> <<>>]
    ELSE IF r.kind \in BaseOnly THEN
        [kind |-> r.kind, value |-> FALSE, msg |-> <<>>, logs |-> <<>>]
    ELSE IF IsThrottledTry(r.msg) THEN
        [kind |-> "raise", value |-> FALSE, msg |-> r.msg,
         logs |-> IF logError THEN <<"check_terms">> ELSE <<>>]
    ELSE
        [kind |-> "return", value |-> FALSE, msg |-> <<>>,
         logs |-> IF logError THEN <<"check_terms">> ELSE <<>>]
try_login(r, logError) ==
    IF r.kind = "ok" THEN
        [kind |-> "return", value |-> TRUE, msg |-> <<>>, logs |-> <<>>]
    ELSE IF r.kind \in BaseOnly THEN
        [kind |-> r.kind, value |-> FALSE, msg |-> <<>>, logs |-> <<>>]
    ELSE IF IsThrottledTry(r.msg) THEN
        [kind |-> "raise", value |-> FALSE, msg |-> r.msg, logs |-> <<>>]
    ELSE
        [kind |-> "return", value |-> FALSE, msg |-> <<>>,
         logs |-> IF logError THEN <<"check_terms">> ELSE <<>>]

(***************************************************************************)
(* SafeAudiConnectAccount.login                                            *)
(***************************************************************************)
\* line 49
IsThrottledLoginMutant(m) == Contains(ThrottledErrorMarker, m)
IsThrottledLogin(m) ==
    \/ Contains(ThrottledMarker, ToLower(m))
    \/ Contains(ThrottledErrorMarker, m)

\* line 40: for i in range(self._connect_retries)
RangeHasMutant(k, n) == k <= n
RangeHas(k, n) == k < n

\* line 43: if self._loggedin is True
BreakOnSuccessMutant(v) == FALSE
BreakOnSuccess(v) == v = TRUE

\* lines 46-66: the except branch of login
LoginExceptMutant(m, k, n) ==
    IF k < n - 1
    THEN [returnFalse |-> FALSE, sleep |-> TRUE, logs |-> <<"retry_in">>]
    ELSE [returnFalse |-> FALSE, sleep |-> FALSE, logs |-> <<"check_terms">>]
LoginExcept(m, k, n) ==
    IF IsThrottledLogin(m)
    THEN [returnFalse |-> TRUE, sleep |-> FALSE,
          logs |-> <<"throttled_wait", "error_message">>]
    ELSE IF k < n - 1
    THEN [returnFalse |-> FALSE, sleep |-> TRUE, logs |-> <<"retry_in">>]
    ELSE [returnFalse |-> FALSE, sleep |-> FALSE, logs |-> <<"check_terms">>]

\* one iteration of the loop of login (lines 40-66) and, when the loop ends
\* with it, the return of line 67.  li is self._loggedin before the iteration.
LoginStep(k, n, li, r) ==
    LET t == try_login(r, k = n - 1) IN
    IF t.kind \in BaseOnly THEN
        [loggedin |-> li, stamp |-> FALSE,
         next |-> IF t.kind = "interrupt" THEN "interrupt" ELSE "abort",
         ret |-> "none", sleep |-> FALSE, logs |-> t.logs]
    ELSE IF t.kind = "return" THEN
        IF BreakOnSuccess(t.value) THEN
            [loggedin |-> t.value, stamp |-> TRUE, next |-> "return",
             ret |-> BoolStr(t.value), sleep |-> FALSE, logs |-> t.logs]
        ELSE
            [loggedin |-> t.value, stamp |-> FALSE,
             next |-> IF RangeHas(k + 1, n) THEN "loop" ELSE "return",
             ret |-> IF RangeHas(k + 1, n) THEN "none" ELSE BoolStr(t.value),
             sleep |-> FALSE, logs |-> t.logs]
    ELSE
        LET e == LoginExcept(t.msg, k, n) IN
        IF e.returnFalse THEN
            [loggedin |-> li, stamp |-> FALSE, next |-> "return", ret |-> "False",
             sleep |-> FALSE, logs |-> t.logs \o e.logs]
        ELSE
            [loggedin |-> li, stamp |-> FALSE,
             next |-> IF RangeHas(k + 1, n) THEN "loop" ELSE "return",
             ret |-> IF RangeHas(k + 1, n) THEN "none" ELSE BoolStr(li),
             sleep |-> e.sleep, logs |-> t.logs \o e.logs]

\* what the service login call did, as the trace records it
EventOf(r) ==
    IF r.kind = "ok" THEN "ok"
    ELSE IF r.kind \in BaseOnly THEN r.kind
    ELSE IF Contains(ThrottledMarker, ToLower(r.msg)) THEN "throttled"
    ELSE "generic"

(***************************************************************************)
(* AudiCLI command methods                                                 *)
(***************************************************************************)
SpinValues == {"None", "", "1234"}

\* `not self.spin` (lines 420, 434, 520, 534)
SpinMissingMutant(s) == s = "None"
SpinMissing(s) == s \in {"None", ""}

\* line 505
TargetInRangeMutant(t) == MinTargetSoc < t /\ t <= MaxTargetSoc
TargetInRange(t) == MinTargetSoc <= t /\ t <= MaxTargetSoc

\* what the account call can do: return a value, raise an Exception ("raise"),
\* or be left by KeyboardInterrupt ("interrupt") or CancelledError ("cancel")
Faults == {"raise", "interrupt", "cancel"}
AccountResults == {"True", "False", "disabled", "None"} \cup Faults

\* how the command method is left: the value it returns, or the exception
\* that propagates out of it
LeftWith(r) ==
    CASE r = "raise" -> "raised"
      [] r = "interrupt" -> "interrupted"
      [] r = "cancel" -> "cancelled"
      [] OTHER -> r

\* truth value of a delivered result (`if result:`)
Truthy(r) == r \in {"True", "disabled"}

\* lines 426-429 and the same shape in every command but refresh_data
ClassifyResult(r) == IF Truthy(r) THEN "success" ELSE "failed"

\* lines 571-576
ClassifyRefreshMutant(r) == IF Truthy(r) THEN "success" ELSE "failed"
ClassifyRefresh(r) ==
    IF r = "True" THEN "success"
    ELSE IF r = "disabled" THEN "disabled"
    ELSE "failed"

TargetValues ==
    ((MinTargetSoc - Margin)..(MinTargetSoc + Margin))
    \cup ((MaxTargetSoc - Margin)..(MaxTargetSoc + Margin))
    \cup {-1, 0}

Call(method, flag, num) == [method |-> method, flag |-> flag, num |-> num]

\* a command method that returns before calling the account
Reject(cmd, a, m) ==
    /\ command' = cmd
    /\ arg' = a
    /\ dispatched' = dispatched
    /\ result' = "none"
    /\ msg' = m
    /\ ret' = "False"

\* a command method that calls the account, which delivers r; an exception
\* leaves the method before it prints any outcome
DispatchRetryMutant(cmd, a, call, r, m) ==
    /\ command' = cmd
    /\ arg' = a
    /\ dispatched' = IF r \in {"False"} \cup Faults
                     THEN dispatched \o <<call, call>>
                     ELSE Append(dispatched, call)
    /\ result' = r
    /\ msg' = IF r \in Faults THEN "none" ELSE m
    /\ ret' = LeftWith(r)
DispatchOnceMutant(cmd, a, call, r, m) ==
    /\ command' = cmd
    /\ arg' = a
    /\ dispatched' = IF \E k \in 1..Len(dispatched) : dispatched[k] = call
                     THEN dispatched
                     ELSE Append(dispatched, call)
    /\ result' = r
    /\ msg' = IF \E k \in 1..Len(dispatched) : dispatched[k] = call THEN "failed"
              ELSE IF r \in Faults THEN "none" ELSE m
    /\ ret' = LeftWith(r)
Dispatch(cmd, a, call, r, m) ==
    /\ command' = cmd
    /\ arg' = a
    /\ dispatched' = Append(dispatched, call)
    /\ result' = r
    /\ msg' = IF r \in Faults THEN "none" ELSE m
    /\ ret' = LeftWith(r)

(***************************************************************************)
(* State machine of one invocation of main()                               *)
(***************************************************************************)
\* main has resolved the credentials and is about to enter the `async with`
\* block.  _loggedin, _logintime and _connect_retries are set by the inherited
\* constructor: the account starts logged out with at least one attempt.
Init ==
    /\ pc = "main"
    /\ session = "none"
    /\ spin \in SpinValues
    /\ connect_retries \in 1..MaxRetries
    /\ i = 0
    /\ loggedin = FALSE
    /\ logintime = 0
    /\ clock = 0
    /\ trace = <<>>
    /\ log = <<>>
    /\ loginRet = "none"
    /\ command = "none"
    /\ arg = 0
    /\ dispatched = <<>>
    /\ result = "none"
    /\ msg = "none"
    /\ ret = "none"
    /\ errors = <<>>
    /\ pastLogins = <<>>
    /\ pastCmds = <<>>

\* AudiCLI.__aenter__ up to the call of login
AEnter ==
    /\ pc = "main"
    /\ session' = "open"
    /\ pc' = "login"
    /\ UNCHANGED <<spin, connect_retries>>
    /\ UNCHANGED pastVars
    /\ UNCHANGED loginVars
    /\ UNCHANGED cmdVars

\* one iteration of login's loop; when it ends the loop, login returns to
\* __aenter__, which returns to main.  A BaseException at the await leaves
\* login and __aenter__ (so __aexit__ is not run): a KeyboardInterrupt arrives
\* at main's handler, a CancelledError leaves main
LoginIteration ==
    /\ pc = "login"
    /\ RangeHas(i, connect_retries)
    /\ \E r \in ServiceLoginOutcomes :
        LET s == LoginStep(i, connect_retries, loggedin, r) IN
        /\ clock' = clock + 1
        /\ loggedin' = s.loggedin
        /\ logintime' = IF s.stamp THEN clock' ELSE logintime
        /\ trace' = trace \o <<EventOf(r)>> \o (IF s.sleep THEN <<"sleep">> ELSE <<>>)
        /\ log' = log \o s.logs
        /\ errors' = IF r.kind = "exc" THEN Append(errors, r.msg) ELSE errors
        /\ loginRet' = s.ret
        /\ i' = IF s.next = "loop" THEN i + 1 ELSE i
        /\ pc' = CASE s.next = "loop" -> "login"
                   [] s.next = "return" -> "route"
                   [] s.next = "interrupt" -> "interrupted"
                   [] OTHER -> "aborted"
    /\ UNCHANGED <<session, spin, connect_retries>>
    /\ UNCHANGED pastVars
    /\ UNCHANGED cmdVars

LockVehicle ==
    /\ pc = "route"
    /\ IF SpinMissing(spin)
       THEN Reject("lock", 0, "spin_required")
       ELSE \E r \in AccountResults :
               Dispatch("lock", 0, Call("set_vehicle_lock", "True", 0), r, ClassifyResult(r))
    /\ pc' = "exit"
    /\ UNCHANGED <<session, spin, connect_retries>>
    /\ UNCHANGED pastVars
    /\ UNCHANGED loginVars

UnlockVehicle ==
    /\ pc = "route"
    /\ IF SpinMissing(spin)
       THEN Reject("unlock", 0, "spin_required")
       ELSE \E r \in AccountResults :
               Dispatch("unlock", 0, Call("set_vehicle_lock", "False", 0), r, ClassifyResult(r))
    /\ pc' = "exit"
    /\ UNCHANGED <<session, spin, connect_retries>>
    /\ UNCHANGED pastVars
    /\ UNCHANGED loginVars

StartClimate ==
    /\ pc = "route"
    /\ \E r \in AccountResults :
          Dispatch("climate-start", 0, Call("start_climate_control", "", 0), r, ClassifyResult(r))
    /\ pc' = "exit"
    /\ UNCHANGED <<session, spin, connect_retries>>
    /\ UNCHANGED pastVars
    /\ UNCHANGED loginVars

StopClimate ==
    /\ pc = "route"
    /\ \E r \in AccountResults :
          Dispatch("climate-stop", 0, Call("set_vehicle_climatisation", "False", 0), r, ClassifyResult(r))
    /\ pc' = "exit"
    /\ UNCHANGED <<session, spin, connect_retries>>
    /\ UNCHANGED pastVars
    /\ UNCHANGED loginVars

StartCharging ==
    /\ pc = "route"
    /\ \E r \in AccountResults, timer \in {"True", "False"} :
          Dispatch("charge-start", IF timer = "True" THEN 1 ELSE 0,
                   Call("set_battery_charger", timer, 0), r, ClassifyResult(r))
    /\ pc' = "exit"
    /\ UNCHANGED <<session, spin, connect_retries>>
    /\ UNCHANGED pastVars
    /\ UNCHANGED loginVars

SetChargeTarget ==
    /\ pc = "route"
    /\ \E t \in TargetValues :
          IF ~TargetInRange(t)
          THEN Reject("set-charge-target", t, "validation")
          ELSE \E r \in AccountResults :
                  Dispatch("set-charge-target", t, Call("set_target_state_of_charge", "", t),
                           r, ClassifyResult(r))
    /\ pc' = "exit"
    /\ UNCHANGED <<session, spin, connect_retries>>
    /\ UNCHANGED pastVars
    /\ UNCHANGED loginVars

StartPreheater ==
    /\ pc = "route"
    /\ IF SpinMissing(spin)
       THEN Reject("preheater-start", DefaultDuration, "spin_required")
       ELSE \E r \in AccountResults :
               Dispatch("preheater-start", DefaultDuration,
                        Call("set_vehicle_pre_heater", "True", DefaultDuration),
                        r, ClassifyResult(r))
    /\ pc' = "exit"
    /\ UNCHANGED <<session, spin, connect_retries>>
    /\ UNCHANGED pastVars
    /\ UNCHANGED loginVars

StopPreheater ==
    /\ pc = "route"
    /\ IF SpinMissing(spin)
       THEN Reject("preheater-stop", 0, "spin_required")
       ELSE \E r \in AccountResults :
               Dispatch("preheater-stop", 0, Call("set_vehicle_pre_heater", "False", 0),
                        r, ClassifyResult(r))
    /\ pc' = "exit"
    /\ UNCHANGED <<session, spin, connect_retries>>
    /\ UNCHANGED pastVars
    /\ UNCHANGED loginVars

StartWindowHeating ==
    /\ pc = "route"
    /\ \E r \in AccountResults :
          Dispatch("window-heating-start", 0, Call("set_vehicle_window_heating", "True", 0),
                   r, ClassifyResult(r))
    /\ pc' = "exit"
    /\ UNCHANGED <<session, spin, connect_retries>>
    /\ UNCHANGED pastVars
    /\ UNCHANGED loginVars

StopWindowHeating ==
    /\ pc = "route"
    /\ \E r \in AccountResults :
          Dispatch("window-heating-stop", 0, Call("set_vehicle_window_heating", "False", 0),
                   r, ClassifyResult(r))
    /\ pc' = "exit"
    /\ UNCHANGED <<session, spin, connect_retries>>
    /\ UNCHANGED pastVars
    /\ UNCHANGED loginVars

RefreshData ==
    /\ pc = "route"
    /\ \E r \in AccountResults :
          Dispatch("refresh-data", 0, Call("refresh_vehicle_data", "", 0), r, ClassifyRefresh(r))
    /\ pc' = "exit"
    /\ UNCHANGED <<session, spin, connect_retries>>
    /\ UNCHANGED pastVars
    /\ UNCHANGED loginVars

\* list_vehicles, get_vehicle_status and get_trip_data: one account.update
\* call, whose value is not looked at (lines 163, 204, 582), then printing of
\* the data held; the method returns None whatever update returned
UpdateCommands == {"list-vehicles", "status", "trip-data"}

FetchData ==
    /\ pc = "route"
    /\ \E c \in UpdateCommands, r \in AccountResults :
          /\ command' = c
          /\ arg' = 0
          /\ dispatched' = Append(dispatched, Call("update", "", 0))
          /\ result' = r
          /\ msg' = IF r \in Faults THEN "none" ELSE "data"
          /\ ret' = IF r \in Faults THEN LeftWith(r) ELSE "None"
    /\ pc' = "exit"
    /\ UNCHANGED <<session, spin, connect_retries>>
    /\ UNCHANGED pastVars
    /\ UNCHANGED loginVars

\* main, lines 896-899: a KeyboardInterrupt that reached main is printed as
\* "Operation cancelled by user", an Exception as "Error: ..."; anything else
\* prints nothing here.  rv is how the `async with` statement was left
MainReport(m, rv) ==
    IF rv = "interrupted" THEN "cancelled"
    ELSE IF rv = "raised" THEN "error"
    ELSE m

\* main returns after the try statement unless a CancelledError, which no
\* handler of main catches, leaves it
MainEnd(rv) == IF rv = "cancelled" THEN "aborted" ELSE "done"

\* main, lines 896-897, for a KeyboardInterrupt that came out of __aenter__:
\* the message is printed and main returns; the session __aenter__ opened is
\* not touched
MainInterrupted ==
    /\ pc = "interrupted"
    /\ msg' = MainReport(msg, "interrupted")
    /\ pc' = MainEnd("interrupted")
    /\ UNCHANGED <<session, spin, connect_retries>>
    /\ UNCHANGED pastVars
    /\ UNCHANGED loginVars
    /\ UNCHANGED <<command, arg, dispatched, result, ret>>

\* AudiCLI.__aexit__, run when the `async with` block is left, and then the
\* end of main
AExit ==
    /\ pc = "exit"
    /\ session' = IF session # "none" THEN "closed" ELSE session
    /\ msg' = MainReport(msg, ret)
    /\ pc' = MainEnd(ret)
    /\ UNCHANGED <<spin, connect_retries>>
    /\ UNCHANGED pastVars
    /\ UNCHANGED loginVars
    /\ UNCHANGED <<command, arg, dispatched, result, ret>>

Next ==
    \/ AEnter
    \/ LoginIteration
    \/ MainInterrupted
    \/ LockVehicle
    \/ UnlockVehicle
    \/ StartClimate
    \/ StopClimate
    \/ StartCharging
    \/ SetChargeTarget
    \/ StartPreheater
    \/ StopPreheater
    \/ StartWindowHeating
    \/ StopWindowHeating
    \/ RefreshData
    \/ FetchData
    \/ AExit

Spec == Init /\ [][Next]_vars

TypeOK ==
    /\ pc \in {"main", "login", "route", "exit", "interrupted", "done", "aborted"}
    /\ session \in {"none", "open", "closed"}
    /\ spin \in SpinValues
    /\ connect_retries \in 1..MaxRetries
    /\ i \in 0..MaxRetries
    /\ loggedin \in BOOLEAN
    /\ logintime \in Nat
    /\ loginRet \in {"none", "True", "False"}

(***************************************************************************)
(* Several login() calls on one account object                             *)
(***************************************************************************)
\* how a login() call that returned ended, read off the service's last answer
OutcomeOf(tr) ==
    LET calls == SelectSeq(tr, LAMBDA e : e # "sleep") IN
    IF calls = <<>> THEN "none"
    ELSE CASE calls[Len(calls)] = "ok" -> "Success"
           [] calls[Len(calls)] = "throttled" -> "Throttled"
           [] calls[Len(calls)] = "generic" -> "Exhausted"
           [] OTHER -> "Left"

\* login() is called again on the same account: the loop starts over at
\* i = 0; _loggedin and _logintime are whatever the earlier call left
LoginAgain ==
    /\ pc = "route"
    /\ Len(pastLogins) < MaxLogins - 1
    /\ pastLogins' = Append(pastLogins,
                            [ret |-> loginRet, outcome |-> OutcomeOf(trace),
                             flag |-> loggedin])
    /\ pc' = "login"
    /\ i' = 0
    /\ trace' = <<>>
    /\ errors' = <<>>
    /\ log' = <<>>
    /\ loginRet' = "none"
    /\ UNCHANGED <<session, spin, connect_retries, loggedin, logintime, clock, pastCmds>>
    /\ UNCHANGED cmdVars

NextAccount ==
    \/ AEnter
    \/ LoginIteration
    \/ LoginAgain

SpecAccount == Init /\ [][NextAccount]_vars

(***************************************************************************)
(* Several command calls on one AudiCLI within an authenticated session    *)
(***************************************************************************)
\* the state in which __aenter__ returns after a login that succeeded at once
InitCommands ==
    /\ pc = "route"
    /\ session = "open"
    /\ spin \in SpinValues
    /\ connect_retries \in 1..MaxRetries
    /\ i = 0
    /\ loggedin = TRUE
    /\ logintime = 1
    /\ clock = 1
    /\ trace = <<"ok">>
    /\ log = <<>>
    /\ loginRet = "True"
    /\ command = "none"
    /\ arg = 0
    /\ dispatched = <<>>
    /\ result = "none"
    /\ msg = "none"
    /\ ret = "none"
    /\ errors = <<>>
    /\ pastLogins = <<>>
    /\ pastCmds = <<>>

\* the call the command method that just ran made on the account, if any
LastCall == IF result = "none" THEN <<>> ELSE <<dispatched[Len(dispatched)]>>

\* a command method has returned (or raised) and the holder of the AudiCLI
\* calls another one
CommandAgain ==
    /\ pc = "exit"
    /\ Len(pastCmds) < MaxCommands - 1
    /\ pastCmds' = Append(pastCmds,
                          [command |-> command, arg |-> arg, result |-> result,
                           msg |-> msg, ret |-> ret, call |-> LastCall])
    /\ pc' = "route"
    /\ UNCHANGED <<session, spin, connect_retries, pastLogins>>
    /\ UNCHANGED loginVars
    /\ UNCHANGED cmdVars

NextCommands ==
    \/ LockVehicle
    \/ UnlockVehicle
    \/ StartClimate
    \/ StopClimate
    \/ StartCharging
    \/ SetChargeTarget
    \/ StartPreheater
    \/ StopPreheater
    \/ StartWindowHeating
    \/ StopWindowHeating
    \/ RefreshData
    \/ FetchData
    \/ CommandAgain
    \/ AExit

SpecCommands == InitCommands /\ [][NextCommands]_vars

(***************************************************************************)
(* Properties                                                              *)
(***************************************************************************)
\* the service login calls made so far, in order, and the delays taken
CallsOf(tr) == SelectSeq(tr, LAMBDA e : e # "sleep")
NumCalls == Len(CallsOf(trace))
NumSleeps == Len(SelectSeq(trace, LAMBDA e : e = "sleep"))
ThrottledSeen == \E k \in 1..Len(trace) : trace[k] = "throttled"
AllGeneric(s) == \A k \in 1..Len(s) : s[k] = "generic"
NoPin == spin = "None" \/ spin = ""
PinCommands == {"lock", "unlock", "preheater-start", "preheater-stop"}

\* C1: a throttling fault of the service login call is the last thing login
\* does: no further call and no delay follow it, and login has returned False;
\* a throttling fault on the first call therefore leaves exactly one call.
C1_ThrottleStopsLogin ==
    \A k \in 1..Len(trace) :
        trace[k] = "throttled" =>
            /\ k = Len(trace)
            /\ pc # "login"
            /\ loginRet = "False"

C1_Witness ==
    /\ connect_retries >= 3
    /\ Len(trace) = 2
    /\ trace[2] = "throttled"
    /\ loginRet = "False"

\* C2 (as claimed): with max-attempts N, N-1 generic faults followed by a
\* success make login return True after N calls and N-1 delays.
C2_RetriesThenSuccess ==
    CallsOf(trace) = [k \in 1..connect_retries |->
                         IF k < connect_retries THEN "generic" ELSE "ok"]
        => /\ pc # "login"
           /\ loginRet = "True"
           /\ NumCalls = connect_retries
           /\ NumSleeps = connect_retries - 1

\* C3 (as claimed): the account is called for a vehicle command only when
\* login returned True.
C3_DispatchOnlyAfterSuccess ==
    dispatched # <<>> => loginRet = "True"

\* C4: with max-attempts N, while fewer than N generic faults have occurred
\* (and nothing else) login is still trying; at the N-th it has returned
\* False, the account is not logged in, and no further call can be made.
C4_ExhaustedAfterN ==
    (pc # "main" /\ AllGeneric(CallsOf(trace))) =>
        IF NumCalls = connect_retries
        THEN pc # "login" /\ loginRet = "False" /\ ~loggedin
        ELSE NumCalls < connect_retries /\ pc = "login" /\ loginRet = "none"

C4_Witness ==
    /\ connect_retries >= 3
    /\ NumCalls = connect_retries
    /\ AllGeneric(CallsOf(trace))
    /\ loginRet = "False"

\* C5: when the first service login call succeeds, it is the only call, no
\* delay is taken, the account is logged in with the login time recorded, and
\* login has returned True.
C5_FirstSuccess ==
    (trace # <<>> /\ trace[1] = "ok") =>
        /\ trace = <<"ok">>
        /\ loggedin
        /\ logintime = clock /\ logintime > 0
        /\ pc # "login"
        /\ loginRet = "True"

C5_Witness ==
    /\ connect_retries >= 2
    /\ trace = <<"ok">>
    /\ loginRet = "True"
    /\ loggedin

\* C6: in a run of main, once a throttling fault has been observed the
\* account is never logged in.
C6_ThrottledIsTerminal ==
    ThrottledSeen => ~loggedin /\ logintime = 0

C6_Witness ==
    /\ ThrottledSeen
    /\ connect_retries >= 2
    /\ NumCalls < connect_retries
    /\ pc = "done"

\* C7: the number of service login calls never exceeds max-attempts.
C7_AttemptsBounded ==
    NumCalls <= connect_retries /\ i < connect_retries

C7_Witness ==
    /\ connect_retries >= 2
    /\ NumCalls = connect_retries
    /\ pc = "route"

\* C8: a PIN-requiring command run without a security PIN fails with the
\* S-PIN-required error and never calls the account.
C8_PinRequired ==
    (command \in PinCommands /\ NoPin) =>
        /\ dispatched = <<>>
        /\ result = "none"
        /\ msg = "spin_required"
        /\ ret = "False"

C8_Witness ==
    /\ command = "preheater-start"
    /\ spin = ""
    /\ msg = "spin_required"

\* C9: set_charge_target calls the account exactly when 20 <= target <= 100,
\* with that target; otherwise it reports a validation failure.
C9_TargetRange ==
    command = "set-charge-target" =>
        IF 20 <= arg /\ arg <= 100
        THEN dispatched = <<Call("set_target_state_of_charge", "", arg)>>
        ELSE dispatched = <<>> /\ msg = "validation" /\ ret = "False"

C9_Witness ==
    /\ command = "set-charge-target"
    /\ arg = 20
    /\ Len(dispatched) = 1
    /\ msg = "success"

\* C10: a "disabled" result is reported as disabled, not as success or
\* failure, by the refresh command, and by no other command.
C10_DisabledOnlyForRefresh ==
    /\ (command = "refresh-data" /\ result = "disabled")
          => (msg = "disabled" /\ ret = "disabled")
    /\ msg = "disabled" => (command = "refresh-data" /\ result = "disabled")

C10_Witness ==
    /\ command = "refresh-data"
    /\ result = "disabled"
    /\ msg = "disabled"

\* ---------------------------------------------------------------------------
LastEvent == IF CallsOf(trace) = <<>> THEN "none"
             ELSE CallsOf(trace)[Len(CallsOf(trace))]
Logged(x) == \E k \in 1..Len(log) : log[k] = x
TimesLogged(x) == Len(SelectSeq(log, LAMBDA e : e = x))

\* the message contains the letters of "throttled", each in either case
SameLetter(a, b) ==
    a = b \/ \E k \in 1..NumCased : {a, b} = {UpperChars[k], LowerChars[k]}
HasMarkerAnyCase(m) ==
    \E o \in 0..(Len(m) - Len(ThrottledMarker)) :
        \A j \in 1..Len(ThrottledMarker) : SameLetter(m[o + j], ThrottledMarker[j])

\* C11 (as claimed): when the account call of a command raises a fault, the
\* command reports the same failed outcome as for a False result and the
\* fault does not leave the command method.
C11_FaultIsFailed ==
    result = "raise" => msg = "failed" /\ ret # "raised"

\* C12 (as claimed): a login call ends as Success, Throttled or Exhausted, and
\* two login calls that ended differently returned different values.
C12_OutcomeDistinguishable ==
    loginRet # "none" =>
        /\ OutcomeOf(trace) \in {"Success", "Throttled", "Exhausted"}
        /\ \A k \in 1..Len(pastLogins) :
              pastLogins[k].outcome # OutcomeOf(trace)
                  => pastLogins[k].ret # loginRet

\* C13: one command execution calls the account at most once, whatever the
\* account delivers; exactly once when it delivers anything.
C13_NoCommandRetry ==
    /\ Len(dispatched) <= 1
    /\ result # "none" => Len(dispatched) = 1

C13_Witness ==
    /\ pc = "done"
    /\ result = "raise"
    /\ command = "climate-stop"
    /\ Len(dispatched) = 1

\* C14: a cancellation or a user interrupt delivered during login is the last
\* thing that happens in login: no attempt and no delay follow, nothing is
\* logged as a failed attempt, login does not return, and no command is run;
\* the cancellation leaves main, the interrupt ends main with its message.
C14_CancelHonoured ==
    \A k \in 1..Len(trace) :
        trace[k] \in BaseOnly =>
            /\ k = Len(trace)
            /\ trace[k] = "cancel" => pc = "aborted" /\ msg = "none"
            /\ trace[k] = "interrupt" =>
                  \/ pc = "interrupted" /\ msg = "none"
                  \/ pc = "done" /\ msg = "cancelled"
            /\ loginRet = "none"
            /\ ~Logged("check_terms") /\ ~Logged("retry_in")
            /\ dispatched = <<>>

C14_Witness ==
    /\ connect_retries >= 3
    /\ trace = <<"generic", "interrupt">>
    /\ pc = "done"
    /\ msg = "cancelled"

C16_SingleAttempt ==
    connect_retries = 1 =>
        /\ NumSleeps = 0
        /\ (trace # <<>> /\ trace[1] \in {"generic", "throttled"}) =>
              /\ Len(trace) = 1
              /\ pc # "login"
              /\ loginRet = "False"
              /\ ~loggedin

C16_Witness ==
    /\ connect_retries = 1
    /\ trace = <<"generic">>
    /\ loginRet = "False"

\* C17: a fault whose message holds the marker in any letter case, with or
\* without other text, ends login at once as throttled; login reports
\* throttling only for such a message.
C17_ClassifiedByMessage ==
    /\ \A k \in 1..Len(errors) :
          HasMarkerAnyCase(errors[k]) =>
              /\ k = Len(errors)
              /\ trace[Len(trace)] = "throttled"
              /\ pc # "login"
              /\ loginRet = "False"
              /\ Logged("throttled_wait")
    /\ Logged("throttled_wait") =>
          errors # <<>> /\ HasMarkerAnyCase(errors[Len(errors)])

C17_Witness ==
    /\ connect_retries >= 3
    /\ errors = <<MsgNearMiss, MsgMixed>>
    /\ loginRet = "False"
    /\ Logged("throttled_wait")

\* C18: a login that ended throttled logged the wait message and not the
\* credentials/terms message; one that ended exhausted logged the
\* credentials/terms message once and not the wait message; one that
\* succeeded on the last permitted attempt logged neither.
C18_TerminalMessages ==
    loginRet # "none" =>
        /\ LastEvent = "throttled" =>
              Logged("throttled_wait") /\ ~Logged("check_terms")
        /\ LastEvent = "generic" =>
              TimesLogged("check_terms") = 1 /\ ~Logged("throttled_wait")
        /\ (LastEvent = "ok" /\ NumCalls = connect_retries) =>
              ~Logged("throttled_wait") /\ ~Logged("check_terms")

C18_Witness ==
    /\ connect_retries >= 2
    /\ NumCalls = connect_retries
    /\ LastEvent = "throttled"
    /\ loginRet = "False"

\* C19 (as claimed): whenever a login call has returned, the value it
\* returned equals the account's logged-in flag.
C19_ReturnEqualsFlag ==
    loginRet # "none" => (loginRet = "True") = loggedin

\* C20 (as claimed): when main ends, on any path, the HTTP session opened by
\* __aenter__ has been closed.
C20_SessionClosed ==
    pc \in {"done", "aborted"} => session = "closed"

====
